---- MODULE Spec2Model ----
(***************************************************************************)
(* A model of LAN_UMB.py, the driver for Lufft weather stations speaking   *)
(* the UMB protocol over a TCP socket: the CRC, the frame built and the    *)
(* reply validated by send_request, the payload parsers, the status table, *)
(* the five query methods and the receive loop readFromLAN.                *)
(*                                                                         *)
(* Bytes are integers 0..255, byte strings are sequences of bytes.  A      *)
(* Python value (a return value or a raised exception) is a record         *)
(*   [t |-> type, n |-> int value, b |-> bytes, s |-> text, l |-> list].   *)
(***************************************************************************)
EXTENDS Integers, Sequences, FiniteSets, TLC

VARIABLES
    call,      \* the method called last and its arguments
    tx,        \* tx_frame: the frame written to the socket by send_request
    rx,        \* rx_frame: what readFromLAN returned to send_request
    payload,   \* what send_request returned to the query method (or raised)
    decoder,   \* the parse_* function the query method invoked, "none" if none
    result,    \* what the method returned to its caller (or raised)
    pc,        \* SessionSpec: where the client is: "idle" | "loop" | "recv" | "validate"
    data,      \* SessionSpec: readFromLAN's local data
    loops,     \* SessionSpec: readFromLAN's local loops
    sock,      \* SessionSpec: bytes that arrived on the socket and are not read yet
    pending,   \* SessionSpec: requests the device has received and not answered yet
    peer,      \* SessionSpec: "open" | "closed", the device's end of the connection
    wire       \* Spec: how the transport's answer to the call was made up

vars == <<call, tx, rx, payload, decoder, result, pc, data, loops, sock, pending, peer, wire>>

---------------------------------------------------------------------------
(* Python values *)

PyVal(t, n, b, s, l) == [t |-> t, n |-> n, b |-> b, s |-> s, l |-> l]
PyInt(n) == PyVal("int", n, <<>>, "", <<>>)
PyBytes(b) == PyVal("bytes", 0, b, "", <<>>)
PyStr(s) == PyVal("str", 0, <<>>, s, <<>>)
PyList(l) == PyVal("list", 0, <<>>, "", l)
PyNone == PyVal("None", 0, <<>>, "", <<>>)
\* a float is kept as the bytes struct.unpack read it from (its IEEE-754 image)
PyFloat(b) == PyVal("float", 0, b, "", <<>>)
PyRaise(exc, msg) == PyVal(exc, 0, <<>>, msg, <<>>)

Raised(v) == v.t \in {"UMBError", "struct.error", "OverflowError"}

Min(a, b) == IF a < b THEN a ELSE b
Max(a, b) == IF a > b THEN a ELSE b

\* Python's s[a:b] on a byte string: negative indices count from the end,
\* indices beyond the ends are clamped, an empty range gives b''.
PyIndex(s, i) == IF i < 0 THEN Max(Len(s) + i, 0) ELSE Min(i, Len(s))
PySlice(s, a, b) == SubSeq(s, PyIndex(s, a) + 1, PyIndex(s, b))
\* s[a:]
PySliceFrom(s, a) == SubSeq(s, PyIndex(s, a) + 1, Len(s))

RECURSIVE FromBytesLE(_)
\* int.from_bytes(b, byteorder='little'); 0 for b''
FromBytesLE(b) == IF b = <<>> THEN 0 ELSE Head(b) + 256 * FromBytesLE(Tail(b))

\* int(n).to_bytes(2, 'little') for 0 <= n < 65536
ToBytes2LE(n) == <<n % 256, n \div 256>>

---------------------------------------------------------------------------
(* Checksum: calc_next_crc_byte, calc_crc16 *)

RECURSIVE BitXor(_, _)
\* a ^ b on non-negative integers
BitXor(a, b) ==
    IF a = 0 THEN b
    ELSE IF b = 0 THEN a
    ELSE (((a % 2) + (b % 2)) % 2) + 2 * BitXor(a \div 2, b \div 2)

RECURSIVE CrcBitLoop(_, _, _)
\* the body of "for i in range (8)", from iteration i on
CrcBitLoop(crc_buff, nextbyte, i) ==
    IF i = 8 THEN crc_buff
    ELSE IF BitXor(crc_buff % 2, nextbyte % 2) # 0
        THEN CrcBitLoop(BitXor(crc_buff \div 2, 33800), nextbyte \div 2, i + 1)
        ELSE CrcBitLoop(BitXor(crc_buff \div 2, 0), nextbyte \div 2, i + 1)

\* calc_next_crc_byte with range(7) for range(8): the top bit is never shifted in
calc_next_crc_byte_SevenBits(crc_buff, nextbyte) == CrcBitLoop(crc_buff, nextbyte, 1)

calc_next_crc_byte(crc_buff, nextbyte) == CrcBitLoop(crc_buff, nextbyte, 0)

RECURSIVE CrcByteLoop(_, _, _, _)
\* "for byte in data" over data[lo..hi], left to right, starting from crc.  The
\* range is walked in two halves, the first half's result being computed (bound
\* to c) before the second half starts, so that long frames evaluate in
\* logarithmic depth.
CrcByteLoop(crc, bytes, lo, hi) ==
    IF lo > hi THEN crc
    ELSE IF lo = hi THEN calc_next_crc_byte(crc, bytes[lo])
    ELSE LET mid == (lo + hi) \div 2
         IN  CHOOSE r \in { CrcByteLoop(c, bytes, mid + 1, hi) :
                                c \in {CrcByteLoop(crc, bytes, lo, mid)} } : TRUE

calc_crc16(bytes) == CrcByteLoop(65535, bytes, 1, Len(bytes))

---------------------------------------------------------------------------
(* send_request: the frame it builds and the validation of the reply *)

SOH == 1
STX == 2
ETX == 3
EOT == 4
VERSION == 16
TO_CLASS == 112
FROM == 1
FROM_CLASS == 240

\* FrameLEN with the command and command-version bytes left out of the count
FrameLEN_PayloadOnly(req_payload) == Len(req_payload)

\* LEN = 2, then + 1 for every byte of the payload
FrameLEN(req_payload) == 2 + Len(req_payload)

\* tx_frame as assembled and completed with checksum and EOT
BuildFrame(receiver_id, command, command_version, req_payload) ==
    LET body == <<SOH, VERSION, receiver_id, TO_CLASS, FROM, FROM_CLASS,
                  FrameLEN(req_payload), STX, command, command_version>>
                \o req_payload \o <<ETX>>
    IN  body \o ToBytes2LE(calc_crc16(body)) \o <<EOT>>

E_LENGTH == "RX-Error! Length of Payload is not valid"
E_CHECKSUM == "RX-Error! Checksum test failed"
E_SOH == "RX-Error! No Start-of-frame Character"
E_VERSION == "RX-Error! Wrong Version Number"
E_STX == "RX-Error! Missing STX field"
E_COMMAND == "RX-Error! Wrong Command Number"
E_COMMAND_VERSION == "RX-Error! Wrong Command Version Number"

\* length = int.from_bytes(rx_frame[6:7], byteorder='little')
RxLength(rx_frame) == FromBytesLE(PySlice(rx_frame, 6, 7))

\* "Drop data that has arievd too late": rx_frame after the trimming step
DropOldData(rx_frame, length) ==
    IF Len(rx_frame) > length + 12 THEN PySliceFrom(rx_frame, length + 12)
    ELSE rx_frame

\* the checksum comparison on the (trimmed) frame
ChecksumMatches(frame) ==
    ToBytes2LE(calc_crc16(PySlice(frame, 0, -3))) = PySlice(frame, -3, -1)

\* DecodeReply with the start-of-frame check moved before the checksum check
DecodeReply_SohFirst(rx_frame, command, command_version) ==
    IF Len(rx_frame) = 0 THEN PyInt(0)
    ELSE LET length == RxLength(rx_frame) IN
    IF PySlice(rx_frame, 8 + length, 9 + length) # <<ETX>>
        THEN PyRaise("UMBError", E_LENGTH)
    ELSE LET frame == DropOldData(rx_frame, length) IN
    IF PySlice(frame, 0, 1) # <<SOH>> THEN PyRaise("UMBError", E_SOH)
    ELSE IF ~ChecksumMatches(frame) THEN PyRaise("UMBError", E_CHECKSUM)
    ELSE IF PySlice(frame, 1, 2) # <<VERSION>> THEN PyRaise("UMBError", E_VERSION)
    ELSE IF PySlice(frame, 7, 8) # <<STX>> THEN PyRaise("UMBError", E_STX)
    ELSE IF PySlice(frame, 8, 9) # <<command>> THEN PyRaise("UMBError", E_COMMAND)
    ELSE IF PySlice(frame, 9, 10) # <<command_version>>
        THEN PyRaise("UMBError", E_COMMAND_VERSION)
    ELSE PyBytes(PySlice(frame, 10, 8 + length))

\* the part of send_request after readFromLAN has returned rx_frame
DecodeReply(rx_frame, command, command_version) ==
    IF Len(rx_frame) = 0 THEN PyInt(0)
    ELSE LET length == RxLength(rx_frame) IN
    IF PySlice(rx_frame, 8 + length, 9 + length) # <<ETX>>
        THEN PyRaise("UMBError", E_LENGTH)
    ELSE LET frame == DropOldData(rx_frame, length) IN
    IF ~ChecksumMatches(frame) THEN PyRaise("UMBError", E_CHECKSUM)
    ELSE IF PySlice(frame, 0, 1) # <<SOH>> THEN PyRaise("UMBError", E_SOH)
    ELSE IF PySlice(frame, 1, 2) # <<VERSION>> THEN PyRaise("UMBError", E_VERSION)
    ELSE IF PySlice(frame, 7, 8) # <<STX>> THEN PyRaise("UMBError", E_STX)
    ELSE IF PySlice(frame, 8, 9) # <<command>> THEN PyRaise("UMBError", E_COMMAND)
    ELSE IF PySlice(frame, 9, 10) # <<command_version>>
        THEN PyRaise("UMBError", E_COMMAND_VERSION)
    ELSE PyBytes(PySlice(frame, 10, 8 + length))

\* send_request with readFromLAN's return value rx_frame given: LEN is counted
\* from the payload and int(LEN).to_bytes(1,'little') raises OverflowError
\* above 255, before anything is sent; otherwise the reply is validated.
send_request(receiver_id, command, command_version, req_payload, rx_frame) ==
    IF FrameLEN(req_payload) > 255
        THEN PyRaise("OverflowError", "int too big to convert")
    ELSE DecodeReply(rx_frame, command, command_version)

---------------------------------------------------------------------------
(* The payload parsers *)

\* the value of the two's complement byte u
SignedByte(u) == IF u >= 128 THEN u - 256 ELSE u

\* struct.unpack('<B' | '<b' | '<H' | '<h' | '<L' | '<l', b)[0]: the buffer must
\* have exactly the size of the format; a signed format takes the sign from the
\* last (most significant) byte.  TLC's integers are 32 bits wide: an unsigned
\* long of 2^31 or more is not representable and stops TLC with an overflow.
UnpackInt(size, signed, b) ==
    IF Len(b) # size THEN PyRaise("struct.error", "unpack requires a buffer")
    ELSE IF signed
        THEN PyInt(FromBytesLE(SubSeq(b, 1, size - 1))
                   + (256 ^ (size - 1)) * SignedByte(b[size]))
    ELSE PyInt(FromBytesLE(b))

\* struct.unpack('<f' | '<d', b)[0]
UnpackFloat(size, b) ==
    IF Len(b) # size THEN PyRaise("struct.error", "unpack requires a buffer")
    ELSE PyFloat(b)

parse_data_request(pl) ==
    LET type_of_value == FromBytesLE(PySlice(pl, 3, 4)) IN
    CASE type_of_value = 16 -> UnpackInt(1, FALSE, PySlice(pl, 4, 5))
      [] type_of_value = 17 -> UnpackInt(1, TRUE, PySlice(pl, 4, 5))
      [] type_of_value = 18 -> UnpackInt(2, FALSE, PySlice(pl, 4, 6))
      [] type_of_value = 19 -> UnpackInt(2, TRUE, PySlice(pl, 4, 6))
      [] type_of_value = 20 -> UnpackInt(4, FALSE, PySlice(pl, 4, 8))
      [] type_of_value = 21 -> UnpackInt(4, TRUE, PySlice(pl, 4, 8))
      [] type_of_value = 22 -> UnpackFloat(4, PySlice(pl, 4, 8))
      [] type_of_value = 23 -> UnpackFloat(8, PySlice(pl, 4, 12))
      [] OTHER -> PyInt(0)

RECURSIVE MultiLoop(_, _, _, _, _)
\* MultiLoop with the cursor advanced by nsub only, not past the sub-length byte
MultiLoop_ShortStep(pl, n, i, ptr, valist) ==
    IF i >= n THEN PyList(valist)
    ELSE LET nsub == FromBytesLE(PySlice(pl, ptr, ptr + 1))
             value == parse_data_request(PySlice(pl, ptr + 1, ptr + nsub + 2))
         IN  IF Raised(value) THEN value
             ELSE MultiLoop(pl, n, i + 1, ptr + nsub, Append(valist, value))

\* "for i in range(0,n)" from iteration i on, with ptr and valist as they stand
MultiLoop(pl, n, i, ptr, valist) ==
    IF i >= n THEN PyList(valist)
    ELSE LET nsub == FromBytesLE(PySlice(pl, ptr, ptr + 1))
             value == parse_data_request(PySlice(pl, ptr + 1, ptr + nsub + 2))
         IN  IF Raised(value) THEN value
             ELSE MultiLoop(pl, n, i + 1, ptr + nsub + 1, Append(valist, value))

parse_multi_channel_request(pl) ==
    MultiLoop(pl, FromBytesLE(PySlice(pl, 1, 2)), 0, 2, <<>>)

parse_status_request(pl) == PyInt(FromBytesLE(PySlice(pl, 1, 2)))

parse_readout_time_request(pl) == PyInt(FromBytesLE(PySlice(pl, 1, 4)))

parse_device_info(pl) == PyInt(0)

\* the if/elif chain of checkStatus; a status no branch names falls off the end
\* of the function, which returns None
checkStatus(status) ==
    CASE status = 0 -> PyStr("Command successful; no error; all OK")
      [] status = 16 -> PyStr("Unknown command; not supported by this device")
      [] status = 17 -> PyStr("Status: ungueltige Parameter")
      [] status = 18 -> PyStr("Invalid parameter")
      [] status = 19 -> PyStr("Invalid version of the command")
      [] status = 20 -> PyStr("Invalid password for command")
      [] status = 32 -> PyStr("Read error")
      [] status = 33 -> PyStr("Write error")
      [] status = 34 -> PyStr("Length too great; max. permissible length is designated in <maxlength>")
      [] status = 35 -> PyStr("Invalid address / storage location")
      [] status = 36 -> PyStr("Invalid channel")
      [] status = 37 -> PyStr("Command not possible in this mode")
      [] status = 38 -> PyStr("Unknown calibration command")
      [] status = 39 -> PyStr("Calibration error")
      [] status = 40 -> PyStr("Device not ready; e.g. initialisation / calibration running")
      [] status = 41 -> PyStr("Undervoltage")
      [] status = 42 -> PyStr("Hardware error")
      [] status = 43 -> PyStr("Measurement error")
      [] status = 44 -> PyStr("Error on device initialization")
      [] status = 45 -> PyStr("Error in operating system")
      [] status = 48 -> PyStr("Configuration error, default configuration was loaded")
      [] status = 49 -> PyStr("Calibration error / the calibration is invalid, measurement not possible")
      [] status = 50 -> PyStr("CRC error on loading configuration; default configuration was loaded")
      [] status = 51 -> PyStr("CRC error on loading calibration; measurement not possible")
      [] status = 52 -> PyStr("Calibration step 1")
      [] status = 53 -> PyStr("Calibrations OK")
      [] status = 54 -> PyStr("Channel deactivated")
      [] OTHER -> PyNone

---------------------------------------------------------------------------
(* The query methods.  Each gives what send_request returned (pl), the parser *)
(* it went on to call and what it returned or raised.                       *)

Outcome(pl, parser, res) == [payload |-> pl, decoder |-> parser, result |-> res]

\* "if (payload != 0): value = parse(payload)" around a sentinel
AfterRequest(pl, sentinel, parser, parsed) ==
    IF Raised(pl) THEN Outcome(pl, "none", pl)
    ELSE IF pl # PyInt(0) THEN Outcome(pl, parser, parsed)
    ELSE Outcome(pl, "none", sentinel)

RECURSIVE ChannelBytes(_)
\* chbyteseq + int(channel).to_bytes(2,'little') for each channel of chlist
ChannelBytes(chlist) ==
    IF chlist = <<>> THEN <<>>
    ELSE ToBytes2LE(Head(chlist)) \o ChannelBytes(Tail(chlist))

\* the request payload each query method hands to send_request
DataRequest(channel) == ToBytes2LE(channel)
MultiRequest(chlist) == <<Len(chlist)>> \o ChannelBytes(chlist)
InfoRequest == <<21>>

onlineDataQuery(channel, receiver_id, rx_frame) ==
    LET pl == send_request(receiver_id, 35, 16, DataRequest(channel), rx_frame)
    IN  AfterRequest(pl, PyInt(0), "parse_data_request", parse_data_request(pl.b))

onlineMultiChannelQuery(chlist, receiver_id, rx_frame) ==
    LET pl == send_request(receiver_id, 47, 16, MultiRequest(chlist), rx_frame)
    IN  AfterRequest(pl, PyList(<<>>), "parse_multi_channel_request",
                     parse_multi_channel_request(pl.b))

\* statusQuery with status initialised to 0, as the other methods do, not to -1
statusQuery_ZeroSentinel(receiver_id, rx_frame) ==
    LET pl == send_request(receiver_id, 38, 16, <<>>, rx_frame)
    IN  AfterRequest(pl, PyInt(0), "parse_status_request", parse_status_request(pl.b))

statusQuery(receiver_id, rx_frame) ==
    LET pl == send_request(receiver_id, 38, 16, <<>>, rx_frame)
    IN  AfterRequest(pl, PyInt(-1), "parse_status_request", parse_status_request(pl.b))

readoutTimeQuery(receiver_id, rx_frame) ==
    LET pl == send_request(receiver_id, 40, 16, <<>>, rx_frame)
    IN  AfterRequest(pl, PyInt(0), "parse_readout_time_request",
                     parse_readout_time_request(pl.b))

deviceInfoQuery(receiver_id, rx_frame) ==
    LET pl == send_request(receiver_id, 45, 16, InfoRequest, rx_frame)
    IN  AfterRequest(pl, PyBytes(<<>>), "parse_device_info", parse_device_info(pl.b))

---------------------------------------------------------------------------
(* The other end of the connection: what a device, or a faulty line, can put *)
(* on the wire.  None of this is code of the driver; it is the set of inputs *)
(* the driver is run on.                                                    *)

MaxPayloadLen == 2
MaxEntries == 2

\* bytes the payloads are made of: an ETX look-alike and a byte with all bits set
PayloadBytes == {3, 255}
BytesUpTo(n) == UNION {[1..k -> PayloadBytes] : k \in 0..n}

\* the fields of a frame; crcerr is XORed onto the right checksum
FrameFields ==
    {"soh", "ver", "to", "tocls", "from", "fromcls", "len", "stx", "cmd",
     "cver", "etx", "crcerr", "eot"}

RawFrame(f) ==
    LET pre == <<f.soh, f.ver, f.to, f.tocls, f.from, f.fromcls, f.len, f.stx,
                 f.cmd, f.cver>> \o f.body \o <<f.etx>>
    IN  pre \o ToBytes2LE(BitXor(calc_crc16(pre), f.crcerr)) \o <<f.eot>>

\* a well-formed response of device rid to the master: command and version echoed
GoodFields(rid, cmd, cver, body) ==
    [soh |-> 1, ver |-> 16, to |-> 1, tocls |-> 240, from |-> rid, fromcls |-> 112,
     len |-> 2 + Len(body), stx |-> 2, cmd |-> cmd, cver |-> cver, body |-> body,
     etx |-> 3, crcerr |-> 0, eot |-> 4]

GoodReply(rid, cmd, cver, body) == RawFrame(GoodFields(rid, cmd, cver, body))

\* f with one field wrong (the checksum still computed over the wrong bytes,
\* except for crcerr)
Deviations(f) ==
    {[f EXCEPT !.soh = 0], [f EXCEPT !.ver = 17], [f EXCEPT !.stx = 3],
     [f EXCEPT !.cmd = (f.cmd + 1) % 256], [f EXCEPT !.cver = (f.cver + 1) % 256],
     [f EXCEPT !.etx = 2], [f EXCEPT !.len = f.len + 1],
     [f EXCEPT !.len = f.len - 1], [f EXCEPT !.crcerr = 1], [f EXCEPT !.eot = 0]}

\* f with at most two fields wrong
Deviants(f) == {f} \cup Deviations(f) \cup UNION {Deviations(g) : g \in Deviations(f)}

\* frame with bit pos flipped; bit 0 is the least significant bit of offset 0
FlipBit(frame, pos) ==
    [frame EXCEPT ![(pos \div 8) + 1] = BitXor(frame[(pos \div 8) + 1], 2 ^ (pos % 8))]

\* v as size little-endian bytes, two's complement
EncodeLE(v, size) == [i \in 1..size |-> (v \div (256 ^ (i - 1))) % 256]

IntEntry(tag, size, v) == [tag |-> tag, val |-> v, raw |-> EncodeLE(v, size)]
RawEntry(tag, raw) == [tag |-> tag, val |-> 0, raw |-> raw]

\* values a device reports, by type tag: 16 unsigned char .. 21 signed long
IntEntries ==
    {IntEntry(16, 1, 5), IntEntry(16, 1, 7), IntEntry(16, 1, 255),
     IntEntry(17, 1, -128), IntEntry(17, 1, -1),
     IntEntry(18, 2, 65535), IntEntry(18, 2, 256),
     IntEntry(19, 2, -32768), IntEntry(19, 2, 258),
     IntEntry(20, 4, 2147483647), IntEntry(20, 4, 65536),
     IntEntry(21, 4, -2147483647 - 1), IntEntry(21, 4, -1)}

\* 22 float 1.0, 23 double 1.0
FloatEntries ==
    {RawEntry(22, <<0, 0, 128, 63>>), RawEntry(23, <<0, 0, 0, 0, 0, 0, 240, 63>>)}

\* the entries whose payloads are also delivered incomplete
CutEntries ==
    {IntEntry(16, 1, 5), IntEntry(18, 2, 65535), IntEntry(21, 4, -1)} \cup FloatEntries

ListsUpTo(S, n) == UNION {[1..k -> S] : k \in 0..n}

\* one entry of a multi-channel response: <sub-length> <status> <channel>^2
\* <type> <value>, the sub-length counting what follows it
EntryBytes(e) == <<4 + Len(e.raw), 0, 100, 0, e.tag>> \o e.raw

RECURSIVE ConcatEntries(_)
ConcatEntries(es) ==
    IF es = <<>> THEN <<>> ELSE EntryBytes(Head(es)) \o ConcatEntries(Tail(es))

\* the inner payload of a multi-channel response: <status> <count> entries
MultiPayload(es) == <<0, Len(es)>> \o ConcatEntries(es)

NoWire == [kind |-> "none", frame |-> <<>>, stale |-> <<>>, pos |-> 0, entries |-> <<>>]
WireOf(kind, frame, stale, pos) ==
    [kind |-> kind, frame |-> frame, stale |-> stale, pos |-> pos, entries |-> <<>>]

\* the bytes the transport hands to send_request
Delivered(w) ==
    CASE w.kind \in {"echo", "reply"} -> w.frame
      [] w.kind = "bitflip" -> FlipBit(w.frame, w.pos)
      [] w.kind = "stale" -> w.stale \o w.frame
      [] w.kind = "cut" -> SubSeq(w.frame, 1, w.pos)
      [] OTHER -> <<>>

---------------------------------------------------------------------------
(* Spec: the methods called one at a time, the transport's answer an input *)

Call(op, rid, cmd, ver, arg) ==
    [op |-> op, rid |-> rid, cmd |-> cmd, ver |-> ver, arg |-> arg]

SessionIdle ==
    /\ pc = "idle" /\ data = <<>> /\ loops = 0 /\ sock = <<>>
    /\ pending = <<>> /\ peer = "open"

Init ==
    /\ call = Call("none", 0, 0, 0, <<>>)
    /\ tx = <<>> /\ rx = <<>>
    /\ payload = PyNone /\ decoder = "none" /\ result = PyNone
    /\ wire = NoWire
    /\ SessionIdle

\* no call is under way and the last one's outcome has been taken
Ready == call.op = "none"

\* the caller takes the outcome; the object keeps nothing of a call
Return ==
    /\ call.op # "none"
    /\ call' = Call("none", 0, 0, 0, <<>>)
    /\ tx' = <<>> /\ rx' = <<>>
    /\ payload' = PyNone /\ decoder' = "none" /\ result' = PyNone
    /\ wire' = NoWire
    /\ UNCHANGED <<pc, data, loops, sock, pending, peer>>

\* a direct call of send_request(rid, cmd, ver, p) answered as w says
SendRequestVia(rid, cmd, ver, p, w) ==
    /\ Ready
    /\ call' = Call("send_request", rid, cmd, ver, p)
    /\ wire' = w
    /\ tx' = IF FrameLEN(p) > 255 THEN <<>> ELSE BuildFrame(rid, cmd, ver, p)
    /\ rx' = IF FrameLEN(p) > 255 THEN <<>> ELSE Delivered(w)
    /\ payload' = send_request(rid, cmd, ver, p, Delivered(w))
    /\ result' = payload'
    /\ decoder' = "none"
    /\ UNCHANGED <<pc, data, loops, sock, pending, peer>>

RidSamples == {0, 1, 255}
CmdSamples == {35, 255}
VerSamples == {16, 0}
\* 253 bytes are the most LEN can count in one byte, 254 are one too many
LongPayloads == {[i \in 1..253 |-> 255], [i \in 1..254 |-> 255]}

\* the transport loops the request back
SendRequestEcho ==
    \E rid \in RidSamples, cmd \in CmdSamples, ver \in VerSamples,
       p \in BytesUpTo(MaxPayloadLen) \cup LongPayloads :
        SendRequestVia(rid, cmd, ver, p,
            WireOf("echo", IF FrameLEN(p) > 255 THEN <<>>
                           ELSE BuildFrame(rid, cmd, ver, p), <<>>, 0))

\* nothing arrives
SendRequestSilent ==
    \E cmd \in CmdSamples :
        SendRequestVia(1, cmd, 16, DataRequest(100), WireOf("silent", <<>>, <<>>, 0))

\* a reply with up to two fields wrong arrives
SendRequestReply ==
    \E body \in BytesUpTo(MaxPayloadLen) :
        \E f \in Deviants(GoodFields(1, 35, 16, body)) :
            SendRequestVia(1, 35, 16, DataRequest(100),
                           WireOf("reply", RawFrame(f), <<>>, 0))

\* a well-formed reply arrives with one bit flipped
SendRequestBitFlip ==
    \E body \in BytesUpTo(MaxPayloadLen) :
        LET frame == GoodReply(1, 35, 16, body) IN
        \E pos \in 0..(8 * Len(frame) - 1) :
            SendRequestVia(1, 35, 16, DataRequest(100),
                           WireOf("bitflip", frame, <<>>, pos))

\* a well-formed reply arrives behind a well-formed reply of an earlier exchange
SendRequestStale ==
    \E a \in BytesUpTo(MaxPayloadLen), b \in BytesUpTo(MaxPayloadLen) :
        SendRequestVia(1, 35, 16, DataRequest(100),
                       WireOf("stale", GoodReply(1, 35, 16, b),
                              GoodReply(1, 35, 16, a), 0))

\* only the first pos bytes of a well-formed reply arrive
SendRequestCut ==
    \E body \in BytesUpTo(MaxPayloadLen) :
        LET frame == GoodReply(1, 35, 16, body) IN
        \E pos \in 1..(Len(frame) - 1) :
            SendRequestVia(1, 35, 16, DataRequest(100), WireOf("cut", frame, <<>>, pos))

ParseMultiVia(pl, w) ==
    /\ Ready
    /\ call' = Call("parse_multi_channel_request", 0, 0, 0, pl)
    /\ result' = parse_multi_channel_request(pl)
    /\ wire' = w /\ tx' = <<>> /\ rx' = <<>>
    /\ payload' = PyNone /\ decoder' = "none"
    /\ UNCHANGED <<pc, data, loops, sock, pending, peer>>

\* parse_multi_channel_request on a well-formed payload of integer entries
ParseMultiWellFormed ==
    \E es \in ListsUpTo(IntEntries, MaxEntries) :
        ParseMultiVia(MultiPayload(es), [NoWire EXCEPT !.kind = "wellformed", !.entries = es])

\* ... on a payload that ends early: only its first pos bytes are there
ParseMultiTruncated ==
    \E es \in ListsUpTo(CutEntries, MaxEntries) :
        \E pos \in 2..(Len(MultiPayload(es)) - 1) :
            ParseMultiVia(SubSeq(MultiPayload(es), 1, pos),
                [NoWire EXCEPT !.kind = "truncated", !.entries = es, !.pos = pos])

\* ... on a payload whose count byte declares one entry more than it holds
ParseMultiOverCount ==
    \E es \in ListsUpTo(CutEntries, MaxEntries) :
        ParseMultiVia([MultiPayload(es) EXCEPT ![2] = Len(es) + 1],
            [NoWire EXCEPT !.kind = "overcount", !.entries = es])

CallCheckStatus ==
    \E status \in 0..255 :
        /\ Ready
        /\ call' = Call("checkStatus", 0, 0, 0, <<status>>)
        /\ result' = checkStatus(status)
        /\ wire' = NoWire /\ tx' = <<>> /\ rx' = <<>>
        /\ payload' = PyNone /\ decoder' = "none"
        /\ UNCHANGED <<pc, data, loops, sock, pending, peer>>

Next ==
    \/ SendRequestEcho
    \/ SendRequestSilent
    \/ SendRequestReply
    \/ SendRequestBitFlip
    \/ SendRequestStale
    \/ SendRequestCut
    \/ ParseMultiWellFormed
    \/ ParseMultiTruncated
    \/ ParseMultiOverCount
    \/ CallCheckStatus
    \/ Return

Spec == Init /\ [][Next]_vars

---------------------------------------------------------------------------
(* SessionSpec: one connection.  The client calls the query methods one after *)
(* the other; each sends its request and runs the receive loop of            *)
(* readFromLAN against a socket on which the device's replies arrive when    *)
(* the device gets to them, possibly after the client has given up.          *)

MaxPending == 1

LOOP_LIMIT == 10
LOOP_EXIT == 1000
MIN_FRAME == 12
RECV_SIZE == 1024

QueryOps ==
    {"onlineDataQuery", "onlineMultiChannelQuery", "statusQuery",
     "readoutTimeQuery", "deviceInfoQuery"}

\* the calls made in a session; receiver_id is the default 1
Queries ==
    {Call("onlineDataQuery", 1, 35, 16, <<100>>),
     Call("onlineDataQuery", 1, 35, 16, <<200>>),
     Call("onlineMultiChannelQuery", 1, 47, 16, <<100, 200>>),
     Call("statusQuery", 1, 38, 16, <<>>),
     Call("readoutTimeQuery", 1, 40, 16, <<>>),
     Call("deviceInfoQuery", 1, 45, 16, <<>>)}

\* the request payload of call c
RequestOf(c) ==
    CASE c.op = "onlineDataQuery" -> DataRequest(c.arg[1])
      [] c.op = "onlineMultiChannelQuery" -> MultiRequest(c.arg)
      [] c.op = "deviceInfoQuery" -> InfoRequest
      [] OTHER -> <<>>

\* what call c gives when readFromLAN has returned rx_frame
QueryOutcome(c, rx_frame) ==
    CASE c.op = "onlineDataQuery" -> onlineDataQuery(c.arg[1], c.rid, rx_frame)
      [] c.op = "onlineMultiChannelQuery" -> onlineMultiChannelQuery(c.arg, c.rid, rx_frame)
      [] c.op = "statusQuery" -> statusQuery(c.rid, rx_frame)
      [] c.op = "readoutTimeQuery" -> readoutTimeQuery(c.rid, rx_frame)
      [] c.op = "deviceInfoQuery" -> deviceInfoQuery(c.rid, rx_frame)

\* the device: channel 100 reads 5, channel 200 reads 7, both unsigned char
Measure(channel) == IF channel = 100 THEN 5 ELSE 7
ChannelValue(channel) == <<0>> \o ToBytes2LE(channel) \o <<16, Measure(channel)>>

RECURSIVE ChannelEntries(_)
ChannelEntries(chlist) ==
    IF chlist = <<>> THEN <<>>
    ELSE <<5>> \o ChannelValue(Head(chlist)) \o ChannelEntries(Tail(chlist))

\* the inner payload of the device's response to call c
AnswerBody(c) ==
    CASE c.op = "onlineDataQuery" -> ChannelValue(c.arg[1])
      [] c.op = "onlineMultiChannelQuery" -> <<0, Len(c.arg)>> \o ChannelEntries(c.arg)
      [] c.op = "statusQuery" -> <<0, 0>>
      [] c.op = "readoutTimeQuery" -> <<0, 1, 2, 3>>
      [] c.op = "deviceInfoQuery" -> <<0, 21, 6, 0>>

Answer(c) == GoodReply(c.rid, c.cmd, c.ver, AnswerBody(c))

\* a query method is called: send_request builds the frame, writes it to the
\* socket and enters readFromLAN (data = b'', loops = 0)
StartQuery ==
    /\ pc = "idle"
    /\ Len(pending) < MaxPending
    /\ \E c \in Queries :
        /\ call' = c
        /\ tx' = BuildFrame(c.rid, c.cmd, c.ver, RequestOf(c))
        /\ pending' = IF peer = "open" THEN Append(pending, c) ELSE pending
    /\ rx' = <<>> /\ payload' = PyNone /\ decoder' = "none" /\ result' = PyNone
    /\ data' = <<>> /\ loops' = 0 /\ pc' = "loop"
    /\ UNCHANGED <<sock, peer, wire>>

\* "while loops < 10": one more recv
ReadLoopEnter ==
    /\ pc = "loop" /\ loops < LOOP_LIMIT
    /\ pc' = "recv"
    /\ UNCHANGED <<call, tx, rx, payload, decoder, result, data, loops, sock, pending, peer, wire>>

\* recv returns what has arrived, at most 1024 bytes
RecvData ==
    /\ pc = "recv" /\ sock # <<>>
    /\ data' = data \o SubSeq(sock, 1, Min(RECV_SIZE, Len(sock)))
    /\ sock' = SubSeq(sock, Min(RECV_SIZE, Len(sock)) + 1, Len(sock))
    /\ pc' = "loop"
    /\ UNCHANGED <<call, tx, rx, payload, decoder, result, loops, pending, peer, wire>>

\* nothing arrives within the timeout: socket.timeout is raised
RecvTimeout ==
    /\ pc = "recv" /\ sock = <<>> /\ peer = "open"
    /\ loops' = IF Len(data) < MIN_FRAME THEN loops + 1 ELSE LOOP_EXIT
    /\ pc' = "loop"
    /\ UNCHANGED <<call, tx, rx, payload, decoder, result, data, sock, pending, peer, wire>>

\* the peer has closed the connection: recv returns b'' at once, no exception
RecvClosed ==
    /\ pc = "recv" /\ sock = <<>> /\ peer = "closed"
    /\ data' = data \o <<>>
    /\ pc' = "loop"
    /\ UNCHANGED <<call, tx, rx, payload, decoder, result, loops, sock, pending, peer, wire>>

\* the loop ends: readFromLAN returns data to send_request
ReadReturn ==
    /\ pc = "loop" /\ loops >= LOOP_LIMIT
    /\ rx' = data
    /\ pc' = "validate"
    /\ UNCHANGED <<call, tx, payload, decoder, result, data, loops, sock, pending, peer, wire>>

\* send_request validates rx_frame and returns or raises; the query method
\* parses the payload, or takes its sentinel, and returns
FinishQuery ==
    /\ pc = "validate"
    /\ LET out == QueryOutcome(call, rx) IN
        /\ payload' = out.payload
        /\ decoder' = out.decoder
        /\ result' = out.result
    /\ pc' = "idle"
    /\ UNCHANGED <<call, tx, rx, data, loops, sock, pending, peer, wire>>

\* the device answers the oldest request it has not answered yet
DeviceReply ==
    /\ peer = "open" /\ pending # <<>>
    /\ sock' = sock \o Answer(Head(pending))
    /\ pending' = Tail(pending)
    /\ UNCHANGED <<call, tx, rx, payload, decoder, result, pc, data, loops, peer, wire>>

\* the device closes the connection; what it had not answered stays unanswered
PeerClose ==
    /\ peer = "open"
    /\ peer' = "closed"
    /\ pending' = <<>>
    /\ UNCHANGED <<call, tx, rx, payload, decoder, result, pc, data, loops, sock, wire>>

SessionNext ==
    \/ StartQuery
    \/ ReadLoopEnter
    \/ RecvData
    \/ RecvTimeout
    \/ RecvClosed
    \/ ReadReturn
    \/ FinishQuery
    \/ DeviceReply
    \/ PeerClose

SessionSpec == Init /\ [][SessionNext]_vars

\* readFromLAN runs on: the loop test is made, a recv that can return does (with
\* data, with socket.timeout once the timeout set has passed, with b'' on a
\* closed connection), and the return after the loop is executed
FairSessionSpec ==
    /\ SessionSpec
    /\ WF_vars(ReadLoopEnter)
    /\ WF_vars(RecvData \/ RecvTimeout \/ RecvClosed)
    /\ WF_vars(ReadReturn)

---------------------------------------------------------------------------
(* Claims checked under Spec *)

IsSendRequest == call.op = "send_request"
ChecksumError == PyRaise("UMBError", E_CHECKSUM)

\* C1: when the transport returns exactly the frame send_request built and sent,
\* for a payload of 0..253 bytes, the frame's length byte is 2 + len(payload),
\* the frame is len(payload) + 14 bytes long, every validation check passes and
\* send_request returns exactly the payload it was given.
C1_RoundTrip ==
    (IsSendRequest /\ wire.kind = "echo" /\ Len(call.arg) <= 253) =>
        /\ rx = tx
        /\ Len(tx) = Len(call.arg) + 14
        /\ tx[7] = 2 + Len(call.arg)
        /\ result = PyBytes(call.arg)

\* a 253-byte payload sent to receiver 255 came back whole
C1_Witness ==
    /\ IsSendRequest /\ wire.kind = "echo" /\ call.rid = 255
    /\ Len(call.arg) = 253 /\ rx = tx /\ result = PyBytes(call.arg)

\* C2 (as claimed): when the buffer is a well-formed stale frame A followed by
\* the well-formed reply B, send_request returns exactly the inner payload of B,
\* whatever the payload lengths of A and B.
C2_StaleTrimmed ==
    (IsSendRequest /\ wire.kind = "stale") =>
        result = PyBytes(SubSeq(wire.frame, 11, Len(wire.frame) - 4))

\* C5: a well-formed reply with one bit flipped inside its inner payload (frame
\* offsets 10 .. 7+L) makes send_request raise the checksum error.
C5_TamperDetected ==
    (IsSendRequest /\ wire.kind = "bitflip"
        /\ (wire.pos \div 8) \in 10..(7 + wire.frame[7])) => result = ChecksumError

\* the top bit of the second byte of a two-byte payload was flipped and caught
C5_Witness ==
    /\ IsSendRequest /\ wire.kind = "bitflip" /\ wire.frame[7] = 4
    /\ wire.pos = 8 * 11 + 7 /\ rx # wire.frame /\ result = ChecksumError

\* C6 (as claimed): checkStatus maps every status code 0..255 to a text or to an
\* explicit "unrecognized" indicator, never to an empty/null result.
C6_StatusTotal == (call.op = "checkStatus") => result.t = "str"

\* C7 (as claimed): a multi-channel payload that ends early, or whose count
\* declares more entries than it holds, makes parse_multi_channel_request fail
\* with UMBError; no value list is returned and no other error is raised.
C7_TruncatedRejected ==
    (call.op = "parse_multi_channel_request" /\ wire.kind \in {"truncated", "overcount"})
        => result.t = "UMBError"

\* the checks of send_request, each on its own: check 1 on the buffer as
\* received, checks 2 to 7 on the frame kept after old data is dropped
C8_Kept == DropOldData(rx, RxLength(rx))
C8_Fails(k) ==
    CASE k = 1 -> PySlice(rx, 8 + RxLength(rx), 9 + RxLength(rx)) # <<ETX>>
      [] k = 2 -> ~ChecksumMatches(C8_Kept)
      [] k = 3 -> PySlice(C8_Kept, 0, 1) # <<SOH>>
      [] k = 4 -> PySlice(C8_Kept, 1, 2) # <<VERSION>>
      [] k = 5 -> PySlice(C8_Kept, 7, 8) # <<STX>>
      [] k = 6 -> PySlice(C8_Kept, 8, 9) # <<call.cmd>>
      [] k = 7 -> PySlice(C8_Kept, 9, 10) # <<call.ver>>
C8_Error(k) ==
    CASE k = 1 -> E_LENGTH [] k = 2 -> E_CHECKSUM [] k = 3 -> E_SOH
      [] k = 4 -> E_VERSION [] k = 5 -> E_STX [] k = 6 -> E_COMMAND
      [] k = 7 -> E_COMMAND_VERSION

\* C8: for a non-empty received buffer send_request raises the error of check k
\* exactly when check k fails and checks 1..k-1 pass, in the order end marker
\* at 8+length, checksum, start marker, version, STX, command, command version;
\* it returns a payload exactly when all seven pass.
C8_ValidationOrder ==
    (IsSendRequest /\ rx # <<>>) =>
        LET fails == [k \in 1..7 |-> C8_Fails(k)] IN
        /\ \A k \in 1..7 :
              (result = PyRaise("UMBError", C8_Error(k)))
                  <=> (fails[k] /\ \A j \in 1..(k - 1) : ~fails[j])
        /\ (result.t = "bytes") <=> (\A k \in 1..7 : ~fails[k])
        /\ result.t \in {"bytes", "UMBError"}

\* a frame with a wrong start marker and a wrong checksum reported the checksum
C8_Witness ==
    /\ IsSendRequest /\ rx # <<>> /\ ~C8_Fails(1) /\ C8_Fails(2) /\ C8_Fails(3)
    /\ result = ChecksumError

\* C9: a well-formed multi-channel payload of n entries with integer type tags
\* 16..21 decodes to the list of exactly n values, the i-th being the value the
\* i-th entry encodes under its own tag.
C9_MultiDecoded ==
    (call.op = "parse_multi_channel_request" /\ wire.kind = "wellformed") =>
        result = PyList([i \in 1..Len(wire.entries) |-> PyInt(wire.entries[i].val)])

\* two unsigned-8 entries 5, 7 gave [5, 7]
C9_Witness ==
    /\ call.op = "parse_multi_channel_request" /\ wire.kind = "wellformed"
    /\ call.arg = <<0, 2, 5, 0, 100, 0, 16, 5, 5, 0, 100, 0, 16, 7>>
    /\ result = PyList(<<PyInt(5), PyInt(7)>>)
---------------------------------------------------------------------------
(* Claims checked under SessionSpec and FairSessionSpec *)

Returned == pc = "idle" /\ call.op \in QueryOps

C3_Sentinel(op) ==
    CASE op = "onlineDataQuery" -> PyInt(0)
      [] op = "onlineMultiChannelQuery" -> PyList(<<>>)
      [] op = "statusQuery" -> PyInt(-1)
      [] op = "readoutTimeQuery" -> PyInt(0)
      [] op = "deviceInfoQuery" -> PyBytes(<<>>)

C4_ReadReturns == (pc = "loop") ~> (pc = "validate")

\* C10 (as claimed): a value onlineDataQuery(c) decoded from a received frame
\* comes from the device's response for channel c: the channel the response
\* names (payload bytes 1..2) is c.
C10_ReplyMatchesChannel ==
    (Returned /\ call.op = "onlineDataQuery" /\ decoder = "parse_data_request") =>
        PySlice(payload.b, 1, 3) = DataRequest(call.arg[1])
====
